---- MODULE Spec2Model ----
(***************************************************************************)
(* A model of app.py, the tactical asset-allocation dashboard.             *)
(*                                                                         *)
(* The script is straight-line code around a few pure helpers.  Each block *)
(* of it (share arithmetic, momentum score, VAA, LAA, dual momentum, the   *)
(* drawdown alert, the history log) gets its own specification: Init draws *)
(* the block's inputs from small sets and the actions run the block.       *)
(*                                                                         *)
(* Numbers.  Python floats are binary floating point.  The model keeps the *)
(* rounding and shrinks the format: a float is an integer n that stands    *)
(* for n / 2^FracBits and carries at most Prec significant bits; every     *)
(* arithmetic operation rounds its exact result to the nearest such value, *)
(* ties to even (IEEE-754 with a Prec-bit significand instead of 53).      *)
(* NaN and None are separate tagged values.                                *)
(***************************************************************************)
EXTENDS Integers, Sequences, FiniteSets, TLC

VARIABLES
    pc,
    \* the sidebar inputs and the downloaded price table
    total_assets, exchange_rate, prices,
    \* calc_shares(budget_krw, price_usd, ex_rate)
    budget_krw, price_usd, ex_rate, calc_ret,
    \* get_vaa_score(prices, ticker), ret12(prices, ticker)
    ticker, vaa_score_ret, ret12_ret,
    \* the VAA block
    vaa_scores, vaa_is_crisis, candidates, vaa_pick, vaa_s, vaa_c,
    \* the LAA block
    curr_unrate, ma12_unrate, ivv, curr_p, spy_200ma, laa_dynamic, laa_res, laa_sum,
    \* the dual-momentum block
    ivv_ret, vea_ret, sgov_ret, dm_pick, dm_s, dm_c,
    \* the drawdown alert
    mdd, level, ratio,
    \* the status cell of the block's row in summary_df
    status,
    \* the history log: the CSV file, each session's st.session_state['history'],
    \* the clock, and (for the claims only) every record ever appended, in
    \* order, and whether a save or a load has failed so far
    history_file, session_state, now, appended, io_failed

input_vars == <<total_assets, exchange_rate, prices>>
shares_vars == <<budget_krw, price_usd, ex_rate, calc_ret>>
score_vars == <<ticker, vaa_score_ret, ret12_ret>>
vaa_vars == <<vaa_scores, vaa_is_crisis, candidates, vaa_pick, vaa_s, vaa_c>>
laa_vars == <<curr_unrate, ma12_unrate, ivv, curr_p, spy_200ma, laa_dynamic, laa_res, laa_sum>>
dm_vars == <<ivv_ret, vea_ret, sgov_ret, dm_pick, dm_s, dm_c>>
alert_vars == <<mdd, level, ratio>>
hist_vars == <<history_file, session_state, now, appended, io_failed>>
vars == <<pc, input_vars, shares_vars, score_vars, vaa_vars, laa_vars, dm_vars,
          alert_vars, status, hist_vars>>

----------------------------------------------------------------------------
(* Floating point *)

\* significand width of the model's floats (53 in the program's doubles)
Prec == 6
\* a float n stands for n / 2^FracBits
FracBits == 8

RECURSIVE Pow2(_)
Pow2(k) == IF k = 0 THEN 1 ELSE 2 * Pow2(k - 1)

\* the float 1.0
Scale == Pow2(FracBits)

Abs(n) == IF n < 0 THEN -n ELSE n

\* the spacing of the floats around magnitude q
RECURSIVE UlpOf(_, _)
UlpOf(q, u) == IF q < Pow2(Prec) * u THEN u ELSE UlpOf(q, 2 * u)

Representable(n) == Abs(n) % UlpOf(Abs(n), 1) = 0

\* num/den >= 0 rounded to the nearest float, ties to even
RoundPos(num, den) ==
    LET u == UlpOf(num \div den, 1)
        d == den * u
        k == num \div d
        r == num % d
    IN  IF 2 * r < d THEN k * u
        ELSE IF 2 * r > d THEN (k + 1) * u
        ELSE IF k % 2 = 0 THEN k * u ELSE (k + 1) * u

\* num/den (den > 0) rounded to the nearest float
Round(num, den) == IF num < 0 THEN -RoundPos(-num, den) ELSE RoundPos(num, den)

\* a + b, a - b, a * b, a / b on floats (b # 0 for fdiv)
fadd(a, b) == Round(a + b, 1)
fsub(a, b) == Round(a - b, 1)
fmul(a, b) == Round(a * b, Scale)
fdiv(a, b) == IF b > 0 THEN Round(a * Scale, b) ELSE Round(-(a * Scale), -b)

\* floor of the exact quotient a / b of two integers, b # 0
FloorQuot(a, b) == IF b > 0 THEN a \div b ELSE (-a) \div (-b)

\* a // b on floats: the floor of the exact quotient, as a float
ffloordiv(a, b) == Round(FloorQuot(a, b) * Scale, 1)

\* float(i) for a Python int i, and int(x) for a float x
IntToFloat(i) == Round(i * Scale, 1)
PyInt(x) == IF x >= 0 THEN x \div Scale ELSE -((-x) \div Scale)

\* optional floats: a number, np.nan, None, and "not computed yet"
Num(n) == [k |-> "num", v |-> n]
NaN == [k |-> "nan", v |-> 0]
None == [k |-> "none", v |-> 0]
Unset == [k |-> "unset", v |-> 0]
isnan(x) == x.k = "nan"
IsNum(x) == x.k = "num"

----------------------------------------------------------------------------
(* Price table and series helpers *)

Range(f) == {f[i] : i \in DOMAIN f}

\* A DataFrame is a function from its column names to columns; a column is
\* the sequence of its cells, each a number or NaN, without the NaN rows
\* that pad a shorter history to the common index.
\* a DataFrame with no columns
EmptyFrame == [t \in {} |-> <<>>]

\* safe_series: the ticker's column without its NaN cells, as floats;
\* the empty series when the table is empty or has no such column
safe_series(df, t) ==
    IF DOMAIN df = {} \/ (\A c \in DOMAIN df : Len(df[c]) = 0) THEN <<>>
    ELSE IF t \notin DOMAIN df THEN <<>>
    ELSE LET kept == SelectSeq(df[t], LAMBDA c : ~isnan(c))
         IN  [i \in 1..Len(kept) |-> kept[i].v]

enough_length(series, required) == Len(series) > required

\* series.iloc[-k]
iloc_neg(series, k) == series[Len(series) - k + 1]

\* (s.iloc[-1] / s.iloc[-k]) - 1
trailing_return(s, k) == fsub(fdiv(iloc_neg(s, 1), iloc_neg(s, k)), Scale)

\* the weighted 1/3/6/12-month blend of get_vaa_score, over a series with enough points
vaa_blend(s) ==
    fadd(fadd(fadd(fmul(IntToFloat(12), trailing_return(s, 22)),
                   fmul(IntToFloat(4), trailing_return(s, 66))),
              fmul(IntToFloat(2), trailing_return(s, 132))),
         fmul(IntToFloat(1), trailing_return(s, 252)))

get_vaa_score(df, t) ==
    LET s == safe_series(df, t)
    IN  IF ~enough_length(s, 252) THEN NaN ELSE Num(vaa_blend(s))

ret12(df, t) ==
    LET s == safe_series(df, t)
    IN  IF ~enough_length(s, 252) THEN NaN ELSE Num(trailing_return(s, 252))

----------------------------------------------------------------------------
(* calc_shares *)

\* what the try block of calc_shares does: a result, or Raised
Raised == <<>>

\* calc_shares_try with a price check that forgets "<= 0" (a zero price then
\* makes int() raise, which the except turns into (0, 0.0))
calc_shares_no_sign_check(b, p, e) ==
    IF p = None \/ isnan(p) THEN <<0, 0>>
    ELSE IF e = 0 \/ p.v = 0 THEN <<0, 0>>
    ELSE LET shares == PyInt(ffloordiv(fdiv(b, e), p.v))
         IN  <<shares, fmul(fmul(IntToFloat(shares), p.v), e)>>

calc_shares_try(b, p, e) ==
    IF p = None \/ isnan(p) \/ p.v <= 0 THEN <<0, 0>>
    ELSE IF e = 0 THEN Raised                 \* ZeroDivisionError in budget_krw / ex_rate
    ELSE LET shares == PyInt(ffloordiv(fdiv(b, e), p.v))
         IN  <<shares, fmul(fmul(IntToFloat(shares), p.v), e)>>

calc_shares(b, p, e) ==
    LET r == calc_shares_try(b, p, e)
    IN  IF r = Raised THEN <<0, 0>> ELSE r

\* inputs of the calc_shares specification
BudgetVals == {0} \cup {n \in (4 * Scale)..(6 * Scale) : Representable(n)}
PriceVals == {n \in Scale..(Scale + Scale \div 4) : Representable(n)}
        \cup {2 * Scale, 2 * Scale + 3 * (Scale \div 16)}
ExRateVals == {0, -Scale} \cup {n \in Scale..(Scale + Scale \div 2) : Representable(n)}
PriceArgs == {None, NaN, Num(0), Num(-Scale)} \cup {Num(n) : n \in PriceVals}

\* safe_series(prices, t).iloc[-1] if the series is not empty, else np.nan
last_price(df, t) ==
    LET s == safe_series(df, t)
    IN  IF Len(s) = 0 THEN NaN ELSE Num(iloc_neg(s, 1))

\* budget_per_strat = total_assets / 3
budget_per_strat(total) == fdiv(IntToFloat(total), IntToFloat(3))

----------------------------------------------------------------------------
(* The blocks a specification does not run stay at these values *)

NoPick == "None"
\* rebalancing_history.csv before the first save
NoFile == [exists |-> FALSE, rows |-> <<>>]

InputIdle ==
    /\ total_assets = 0
    /\ exchange_rate = 0
    /\ prices = EmptyFrame

SharesIdle ==
    /\ budget_krw = 0
    /\ price_usd = None
    /\ ex_rate = 0
    /\ calc_ret = Raised

ScoreIdle ==
    /\ ticker = "IVV"
    /\ vaa_score_ret = Unset
    /\ ret12_ret = Unset

VaaIdle ==
    /\ vaa_scores = <<>>
    /\ vaa_is_crisis = FALSE
    /\ candidates = <<>>
    /\ vaa_pick = NoPick
    /\ vaa_s = 0
    /\ vaa_c = 0

LaaIdle ==
    /\ curr_unrate = 0
    /\ ma12_unrate = 0
    /\ ivv = <<>>
    /\ curr_p = NaN
    /\ spy_200ma = NaN
    /\ laa_dynamic = NoPick
    /\ laa_res = <<>>
    /\ laa_sum = 0

DmIdle ==
    /\ ivv_ret = NaN
    /\ vea_ret = NaN
    /\ sgov_ret = NaN
    /\ dm_pick = NoPick
    /\ dm_s = 0
    /\ dm_c = 0

AlertIdle ==
    /\ mdd = NaN
    /\ level = "unset"
    /\ ratio = "unset"
    /\ status = "unset"

HistIdle ==
    /\ history_file = NoFile
    /\ session_state = <<>>
    /\ now = 0
    /\ appended = <<>>
    /\ io_failed = FALSE

----------------------------------------------------------------------------
(* calc_shares on its own *)

InitShares ==
    /\ pc = "start"
    /\ budget_krw \in BudgetVals
    /\ price_usd \in PriceArgs
    /\ ex_rate \in ExRateVals
    /\ calc_ret = Raised
    /\ InputIdle /\ ScoreIdle /\ VaaIdle /\ LaaIdle /\ DmIdle /\ AlertIdle /\ HistIdle

CalcShares ==
    /\ pc = "start"
    /\ calc_ret' = calc_shares(budget_krw, price_usd, ex_rate)
    /\ pc' = "done"
    /\ UNCHANGED <<budget_krw, price_usd, ex_rate>>
    /\ UNCHANGED <<input_vars, score_vars, vaa_vars, laa_vars, dm_vars, alert_vars, status, hist_vars>>

NextShares == CalcShares

SpecShares == InitShares /\ [][NextShares]_vars

\* C1: for budget > 0, price > 0 and exchange rate > 0 the result satisfies
\* shares = floor((budget / exchangeRate) / price), shares >= 0,
\* spent = shares * price * exchangeRate, and spent <= budget.
C1_ValidCall ==
    /\ pc = "done"
    /\ budget_krw > 0
    /\ IsNum(price_usd) /\ price_usd.v > 0
    /\ ex_rate > 0

C1_BudgetInvariant ==
    C1_ValidCall =>
        /\ calc_ret[1] = FloorQuot(budget_krw * Scale, ex_rate * price_usd.v)
        /\ calc_ret[1] >= 0
        /\ calc_ret[2] = fmul(fmul(IntToFloat(calc_ret[1]), price_usd.v), ex_rate)
        /\ calc_ret[2] <= budget_krw

\* the part of C1 that spec calls the budget invariant: never overspend
C1_NeverOverspends == C1_ValidCall => calc_ret[2] <= budget_krw

\* C2: with a price that is None, NaN, zero or negative, or when the
\* arithmetic fails (exchange rate 0), calc_shares returns exactly (0, 0)
\* and no exception leaves it.
C2_InvalidPrice ==
    price_usd = None \/ isnan(price_usd) \/ (IsNum(price_usd) /\ price_usd.v <= 0)

C2_UndefinedPriceSafety ==
    pc = "done" =>
        /\ calc_ret # Raised
        /\ (C2_InvalidPrice \/ ex_rate = 0) => calc_ret = <<0, 0>>

C2_Witness ==
    /\ pc = "done"
    /\ budget_krw > 0 /\ ex_rate > 0
    /\ IsNum(price_usd) /\ price_usd.v < 0
    /\ calc_ret = <<0, 0>>

----------------------------------------------------------------------------
(* get_vaa_score and ret12 on one column *)

\* raw column lengths run from 252 - LenSlack to 252 + LenSlack + 2
LenSlack == 2
\* number of price patterns tried
NumShapes == 6
\* at most this many NaN cells in a raw column
MaxHoles == 2

\* the k-th price of pattern m: between 1.0 and 1.1875, neighbours differ
PriceAt(k, m) == Scale + (Scale \div 32) * ((k * m) % 7)

\* a raw column of length n in pattern m whose first h odd cells are NaN
Column(n, m, h) ==
    [k \in 1..n |-> IF k % 2 = 1 /\ k < 2 * h THEN NaN ELSE Num(PriceAt(k, m))]

ColumnLens == {0, 1} \cup ((252 - LenSlack)..(252 + LenSlack + 2))

ScoreFrames ==
    {EmptyFrame}
    \cup {[t \in {"IVV"} |-> Column(n, m, h)] :
            n \in ColumnLens, m \in 1..NumShapes, h \in 0..MaxHoles}

InitScore ==
    /\ pc = "start"
    /\ prices \in ScoreFrames
    /\ ticker \in {"IVV", "VEA"}
    /\ vaa_score_ret = Unset
    /\ ret12_ret = Unset
    /\ total_assets = 0 /\ exchange_rate = 0
    /\ SharesIdle /\ VaaIdle /\ LaaIdle /\ DmIdle /\ AlertIdle /\ HistIdle

GetVaaScore ==
    /\ vaa_score_ret = Unset
    /\ vaa_score_ret' = get_vaa_score(prices, ticker)
    /\ UNCHANGED <<pc, input_vars, ticker, ret12_ret>>
    /\ UNCHANGED <<shares_vars, vaa_vars, laa_vars, dm_vars, alert_vars, status, hist_vars>>

Ret12 ==
    /\ ret12_ret = Unset
    /\ ret12_ret' = ret12(prices, ticker)
    /\ UNCHANGED <<pc, input_vars, ticker, vaa_score_ret>>
    /\ UNCHANGED <<shares_vars, vaa_vars, laa_vars, dm_vars, alert_vars, status, hist_vars>>

NextScore == GetVaaScore \/ Ret12

SpecScore == InitScore /\ [][NextScore]_vars

\* C3: with L the length of the series, ret12 and get_vaa_score are NaN when
\* L <= 251; when L > 251 they are defined and equal P[i]/P[i-251] - 1 and
\* 12*(P[i]/P[i-21]-1) + 4*(P[i]/P[i-65]-1) + 2*(P[i]/P[i-131]-1)
\* + 1*(P[i]/P[i-251]-1), i the latest index: 251 points give NaN, 252 a value.
C3_Back(P, j) == fsub(fdiv(P[Len(P)], P[Len(P) - j]), Scale)

C3_Score(P) ==
    fadd(fadd(fadd(fmul(IntToFloat(12), C3_Back(P, 21)),
                   fmul(IntToFloat(4), C3_Back(P, 65))),
              fmul(IntToFloat(2), C3_Back(P, 131))),
         fmul(IntToFloat(1), C3_Back(P, 251)))

C3_LookbackThreshold ==
    LET P == safe_series(prices, ticker)
    IN  /\ ret12_ret # Unset =>
              ret12_ret = IF Len(P) <= 251 THEN NaN ELSE Num(C3_Back(P, 251))
        /\ vaa_score_ret # Unset =>
              vaa_score_ret = IF Len(P) <= 251 THEN NaN ELSE Num(C3_Score(P))

\* what the code does: the threshold is 252 points, not 251
C3_CodeThreshold ==
    LET P == safe_series(prices, ticker)
    IN  /\ ret12_ret # Unset =>
              ret12_ret = IF Len(P) <= 252 THEN NaN ELSE Num(C3_Back(P, 251))
        /\ vaa_score_ret # Unset =>
              vaa_score_ret = IF Len(P) <= 252 THEN NaN ELSE Num(C3_Score(P))

----------------------------------------------------------------------------
(* The VAA block *)

vaa_atk == <<"IVV", "VEA", "VWO", "BND">>
vaa_dfn == <<"USIG", "VGIT", "VGSH">>
VaaTickers == Range(vaa_atk) \cup Range(vaa_dfn)

\* any(... for t in lst), the generator tested left to right
RECURSIVE any_nonpositive(_, _, _)
any_nonpositive(scores, lst, i) ==
    IF i > Len(lst) THEN FALSE
    ELSE IF ~isnan(scores[lst[i]]) /\ scores[lst[i]].v <= 0 THEN TRUE
    ELSE any_nonpositive(scores, lst, i + 1)

\* any_nonpositive with "< 0" in place of "<= 0"
RECURSIVE any_negative(_, _, _)
any_negative(scores, lst, i) ==
    IF i > Len(lst) THEN FALSE
    ELSE IF ~isnan(scores[lst[i]]) /\ scores[lst[i]].v < 0 THEN TRUE
    ELSE any_negative(scores, lst, i + 1)

crisis_strict(scores) == any_negative(scores, vaa_atk, 1)

crisis_of(scores) == any_nonpositive(scores, vaa_atk, 1)

candidates_of(scores, crisis) ==
    SelectSeq(IF crisis THEN vaa_dfn ELSE vaa_atk, LAMBDA t : ~isnan(scores[t]))

\* max(lst, key=...): scan left to right, replace the best only by a strictly larger key
RECURSIVE max_from(_, _, _, _)
max_from(lst, scores, i, best) ==
    IF i > Len(lst) THEN best
    ELSE IF scores[lst[i]].v > scores[best].v THEN max_from(lst, scores, i + 1, lst[i])
    ELSE max_from(lst, scores, i + 1, best)

\* max_from with ">=" in place of ">": on a tie the later element wins
RECURSIVE max_last_from(_, _, _, _)
max_last_from(lst, scores, i, best) ==
    IF i > Len(lst) THEN best
    ELSE IF scores[lst[i]].v >= scores[best].v THEN max_last_from(lst, scores, i + 1, lst[i])
    ELSE max_last_from(lst, scores, i + 1, best)

pick_last_max(lst, scores) ==
    IF Len(lst) = 0 THEN NoPick ELSE max_last_from(lst, scores, 2, lst[1])

\* max(candidates, key=lambda x: vaa_scores[x]) if candidates else None
pick_of(lst, scores) ==
    IF Len(lst) = 0 THEN NoPick ELSE max_from(lst, scores, 2, lst[1])

\* the status cell of the VAA row: defense ("방어") or attack ("공격")
vaa_status(crisis) == IF crisis THEN "defense" ELSE "attack"

\* the scores a ticker may have: undefined, negative, zero, two positive values
ScoreVals == {NaN, Num(-Scale), Num(0), Num(Scale \div 2), Num(Scale)}

\* the block reads the scores and, for the pick, the last price of its column
InitVaa ==
    /\ pc = "start"
    /\ total_assets \in {0, 16}
    /\ exchange_rate = Scale + Scale \div 4
    /\ prices = [t \in VaaTickers |-> <<Num(Scale + Scale \div 8)>>]
    /\ vaa_scores \in [VaaTickers -> ScoreVals]
    /\ vaa_is_crisis = FALSE
    /\ candidates = <<>>
    /\ vaa_pick = NoPick
    /\ vaa_s = 0
    /\ vaa_c = 0
    /\ SharesIdle /\ ScoreIdle /\ LaaIdle /\ DmIdle /\ AlertIdle /\ HistIdle

Vaa ==
    /\ pc = "start"
    /\ LET crisis == crisis_of(vaa_scores)
           cands == candidates_of(vaa_scores, crisis)
           pick == pick_of(cands, vaa_scores)
           bought == IF pick # NoPick
                     THEN calc_shares(budget_per_strat(total_assets),
                                      last_price(prices, pick), exchange_rate)
                     ELSE <<0, 0>>
       IN  /\ vaa_is_crisis' = crisis
           /\ candidates' = cands
           /\ vaa_pick' = pick
           /\ vaa_s' = bought[1]
           /\ vaa_c' = bought[2]
           /\ status' = vaa_status(crisis)
    /\ pc' = "done"
    /\ UNCHANGED <<input_vars, vaa_scores>>
    /\ UNCHANGED <<shares_vars, score_vars, laa_vars, dm_vars, alert_vars, hist_vars>>

NextVaa == Vaa

SpecVaa == InitVaa /\ [][NextVaa]_vars

C5_Position(lst, t) == CHOOSE i \in 1..Len(lst) : lst[i] = t

C5_RegimeList == IF vaa_is_crisis THEN vaa_dfn ELSE vaa_atk

C5_Defined == {t \in Range(C5_RegimeList) : IsNum(vaa_scores[t])}

C5_Selection ==
    pc = "done" =>
        /\ Range(candidates) = C5_Defined
        /\ C5_Defined = {} => vaa_pick = NoPick /\ vaa_s = 0 /\ vaa_c = 0
        /\ C5_Defined # {} =>
              /\ vaa_pick \in C5_Defined
              /\ \A c \in C5_Defined :
                    /\ vaa_scores[vaa_pick].v >= vaa_scores[c].v
                    /\ vaa_scores[c].v = vaa_scores[vaa_pick].v =>
                          C5_Position(C5_RegimeList, vaa_pick)
                              <= C5_Position(C5_RegimeList, c)

\* a tie for the best score between two later candidates, the first of them
\* picked and bought
C5_Witness ==
    /\ pc = "done"
    /\ ~vaa_is_crisis
    /\ vaa_scores["IVV"] = Num(Scale \div 2)
    /\ vaa_scores["VEA"] = Num(Scale)
    /\ vaa_scores["VWO"] = Num(Scale)
    /\ vaa_pick = "VEA"
    /\ vaa_s > 0

\* no candidate at all: every defense score undefined in a crisis
C5_EmptyCase ==
    /\ pc = "done"
    /\ vaa_is_crisis
    /\ candidates = <<>>
    /\ vaa_pick = NoPick

----------------------------------------------------------------------------
(* The dual-momentum block *)

\* a > b on floats that may be NaN: any comparison with NaN is False
gt(a, b) == ~isnan(a) /\ ~isnan(b) /\ a.v > b.v
lt(a, b) == ~isnan(a) /\ ~isnan(b) /\ a.v < b.v

\* dm_pick_of where an undefined cash return no longer blocks the equity pick
dm_pick_ignoring_nan_cash(i, v, c) ==
    IF isnan(i) /\ isnan(v) THEN "BND"
    ELSE LET better == IF ~isnan(i) /\ (isnan(v) \/ gt(i, v)) THEN "IVV" ELSE "VEA"
             better_ret == IF better = "IVV" THEN i ELSE v
         IN  IF ~isnan(better_ret) /\ (isnan(c) \/ gt(better_ret, c)) THEN better ELSE "BND"

dm_pick_of(i, v, c) ==
    IF isnan(i) /\ isnan(v) THEN "BND"
    ELSE LET better == IF ~isnan(i) /\ (isnan(v) \/ gt(i, v)) THEN "IVV" ELSE "VEA"
             better_ret == IF better = "IVV" THEN i ELSE v
         IN  IF ~isnan(better_ret) /\ gt(better_ret, c) THEN better ELSE "BND"

\* the status cell of the dual-momentum row: bond ("채권") or equity ("주식")
dm_status(pick) == IF pick = "BND" THEN "bond" ELSE "equity"

DmFrames ==
    {[t \in S |-> <<Num(Scale + Scale \div 8)>>] : S \in {{"IVV", "VEA", "BND"}, {"IVV", "VEA"}}}

InitDm ==
    /\ pc = "start"
    /\ total_assets \in {0, 16}
    /\ exchange_rate = Scale + Scale \div 4
    /\ prices \in DmFrames
    /\ ivv_ret \in ScoreVals
    /\ vea_ret \in ScoreVals
    /\ sgov_ret \in ScoreVals
    /\ dm_pick = NoPick
    /\ dm_s = 0
    /\ dm_c = 0
    /\ SharesIdle /\ ScoreIdle /\ VaaIdle /\ LaaIdle /\ AlertIdle /\ HistIdle

Dm ==
    /\ pc = "start"
    /\ LET pick == dm_pick_of(ivv_ret, vea_ret, sgov_ret)
           bought == calc_shares(budget_per_strat(total_assets),
                                 last_price(prices, pick), exchange_rate)
       IN  /\ dm_pick' = pick
           /\ dm_s' = bought[1]
           /\ dm_c' = bought[2]
           /\ status' = dm_status(pick)
    /\ pc' = "done"
    /\ UNCHANGED <<input_vars, ivv_ret, vea_ret, sgov_ret>>
    /\ UNCHANGED <<shares_vars, score_vars, vaa_vars, laa_vars, mdd, level, ratio, hist_vars>>

NextDm == Dm

SpecDm == InitDm /\ [][NextDm]_vars

\* C6: both IVV and VEA returns undefined: BND whatever the SGOV return.
\* Otherwise better = IVV if its return is defined and (VEA's is undefined or
\* IVV's > VEA's), else VEA; the pick is better if its return is defined and
\* strictly above SGOV's, else BND (also when SGOV's is undefined).  The
\* status is "bond" exactly when the pick is BND.
C6_Better ==
    IF IsNum(ivv_ret) /\ (~IsNum(vea_ret) \/ ivv_ret.v > vea_ret.v) THEN "IVV" ELSE "VEA"

C6_BetterRet == IF C6_Better = "IVV" THEN ivv_ret ELSE vea_ret

C6_DualMomentum ==
    pc = "done" =>
        /\ (~IsNum(ivv_ret) /\ ~IsNum(vea_ret)) => dm_pick = "BND"
        /\ (IsNum(ivv_ret) \/ IsNum(vea_ret)) =>
              dm_pick = IF /\ IsNum(C6_BetterRet)
                           /\ IsNum(sgov_ret)
                           /\ C6_BetterRet.v > sgov_ret.v
                        THEN C6_Better ELSE "BND"
        /\ (status = "bond") <=> (dm_pick = "BND")

\* a positive domestic return that beats the international one falls back to
\* BND because the cash return is undefined
C6_Witness ==
    /\ pc = "done"
    /\ ivv_ret = Num(Scale)
    /\ vea_ret = Num(Scale \div 2)
    /\ isnan(sgov_ret)
    /\ dm_pick = "BND"
    /\ status = "bond"

----------------------------------------------------------------------------
(* The drawdown alert *)

\* the level and ratio the alert shows for a defined MDD; the noise branch
\* ("노이즈 구간") advises no conversion, the others are "1단계" ... "최종단계"
stage_of(m) ==
    IF m > -(15 * Scale) THEN <<"noise", "none">>
    ELSE IF -(20 * Scale) < m /\ m <= -(15 * Scale) THEN <<"stage1", "20%">>
    ELSE IF -(25 * Scale) < m /\ m <= -(20 * Scale) THEN <<"stage2", "40%">>
    ELSE IF -(30 * Scale) < m /\ m <= -(25 * Scale) THEN <<"stage3", "60%">>
    ELSE IF -(35 * Scale) < m /\ m <= -(30 * Scale) THEN <<"stage4", "80%">>
    ELSE <<"final", "100%">>

\* switching_alert with every bound inclusive on the wrong side
stage_lower_inclusive(x) ==
    LET m == x.v
    IN  IF isnan(x) THEN <<"nodata", "none">>
        ELSE IF m >= -(15 * Scale) THEN <<"noise", "none">>
        ELSE IF -(20 * Scale) <= m /\ m < -(15 * Scale) THEN <<"stage1", "20%">>
        ELSE IF -(25 * Scale) <= m /\ m < -(20 * Scale) THEN <<"stage2", "40%">>
        ELSE IF -(30 * Scale) <= m /\ m < -(25 * Scale) THEN <<"stage3", "60%">>
        ELSE IF -(35 * Scale) <= m /\ m < -(30 * Scale) THEN <<"stage4", "80%">>
        ELSE <<"final", "100%">>

\* the whole switching-stage column: no stage when MDD is NaN
switching_alert(x) == IF isnan(x) THEN <<"nodata", "none">> ELSE stage_of(x.v)

\* drawdowns down to -45 %
MddVals == {NaN} \cup {Num(-n) : n \in {k \in 0..(45 * Scale) : Representable(k)}}

InitAlert ==
    /\ pc = "start"
    /\ mdd \in MddVals
    /\ level = "unset"
    /\ ratio = "unset"
    /\ status = "unset"
    /\ InputIdle /\ SharesIdle /\ ScoreIdle /\ VaaIdle /\ LaaIdle /\ DmIdle /\ HistIdle

Alert ==
    /\ pc = "start"
    /\ level' = switching_alert(mdd)[1]
    /\ ratio' = switching_alert(mdd)[2]
    /\ pc' = "done"
    /\ UNCHANGED <<mdd, status>>
    /\ UNCHANGED <<input_vars, shares_vars, score_vars, vaa_vars, laa_vars, dm_vars, hist_vars>>

NextAlert == Alert

SpecAlert == InitAlert /\ [][NextAlert]_vars

\* C9: every defined MDD selects exactly the stage of the table: > -15 noise
\* (0%), (-20, -15] stage 1 (20%), (-25, -20] stage 2 (40%), (-30, -25]
\* stage 3 (60%), (-35, -30] stage 4 (80%), <= -35 final (100%); -20.0 is
\* stage 2 and the next value above it stage 1; the ratio never decreases as
\* MDD falls.
C9_Table ==
    << <<"noise", 0>>, <<"stage1", 20>>, <<"stage2", 40>>, <<"stage3", 60>>,
       <<"stage4", 80>>, <<"final", 100>> >>

\* the number of thresholds -15, -20, ..., -35 at or above m
C9_Row(m) == 1 + Cardinality({j \in 3..7 : m <= -(5 * j * Scale)})

C9_Percent(r) ==
    CASE r = "none" -> 0 [] r = "20%" -> 20 [] r = "40%" -> 40
      [] r = "60%" -> 60 [] r = "80%" -> 80 [] r = "100%" -> 100

C9_Staging ==
    (pc = "done" /\ IsNum(mdd)) =>
        /\ level = C9_Table[C9_Row(mdd.v)][1]
        /\ C9_Percent(ratio) = C9_Table[C9_Row(mdd.v)][2]
        /\ mdd.v = -(20 * Scale) => level = "stage2"
        /\ mdd.v = -(20 * Scale) + UlpOf(19 * Scale, 1) => level = "stage1"
        /\ \A x \in MddVals :
              (IsNum(x) /\ x.v <= mdd.v) =>
                  C9_Percent(switching_alert(x)[2]) >= C9_Percent(ratio)

\* exactly -20.0 shown as stage 2 with 40%
C9_Witness ==
    /\ pc = "done"
    /\ mdd = Num(-(20 * Scale))
    /\ level = "stage2"
    /\ ratio = "40%"

----------------------------------------------------------------------------
(* The IVV indicators and the LAA block *)

\* s[from] + ... + s[to], halving the range
RECURSIVE SumSeq(_, _, _)
SumSeq(s, from, to) ==
    IF from > to THEN 0
    ELSE IF from = to THEN s[from]
    ELSE LET mid == (from + to) \div 2
         IN  SumSeq(s, from, mid) + SumSeq(s, mid + 1, to)

\* series.cummax().iloc[-1], the largest value of a series that is not empty
cummax_last(s) == CHOOSE x \in Range(s) : \A y \in Range(s) : y <= x

\* series.rolling(window=w).mean().iloc[-1]: NaN with fewer than w points, else
\* the mean of the last w (pandas keeps a compensated running sum, modelled
\* as the correctly rounded sum)
rolling_mean_last(s, w) ==
    IF Len(s) < w THEN NaN
    ELSE Num(fdiv(Round(SumSeq(s, Len(s) - w + 1, Len(s)), 1), IntToFloat(w)))

spy_200ma_of(s) ==
    IF Len(s) # 0 /\ enough_length(s, 200) THEN rolling_mean_last(s, 200) ELSE NaN

laa_dynamic_of(unrate, ma12, p, ma200) ==
    IF unrate > ma12 /\ (~isnan(p) /\ lt(p, ma200)) THEN "VGSH" ELSE "QQQM"

\* the status cell of the LAA row: recession ("불황") or normal ("정상")
laa_status(dyn) == IF dyn = "VGSH" THEN "defensive" ELSE "normal"

\* one row of laa_res: the ticker, its shares and the amount spent
laa_row(df, t, total, ex) ==
    LET bought == calc_shares(fmul(budget_per_strat(total), Scale \div 4),
                              last_price(df, t), ex)
    IN  [ticker |-> t, shares |-> bought[1], amount |-> bought[2]]

RECURSIVE laa_sum_from(_, _, _)
laa_sum_from(rows, i, acc) ==
    IF i > Len(rows) THEN acc ELSE laa_sum_from(rows, i + 1, fadd(acc, rows[i].amount))

\* laa_sum = 0.0, then laa_sum += cs row by row
laa_sum_of(rows) == laa_sum_from(rows, 1, 0)

LaaFixed == <<"VTV", "VGIT", "IAUM">>
LaaTickers == {"VTV", "VGIT", "IAUM", "VGSH", "QQQM"}

\* IVV histories: flat at 1.5, or flat with a last price of 1.0 (below the
\* average) or of 1.75 (above it)
IvvColumn(n, m) ==
    [k \in 1..n |-> IF k < n \/ m = 1 THEN Num(Scale + Scale \div 2)
                    ELSE IF m = 2 THEN Num(Scale) ELSE Num(Scale + 3 * (Scale \div 4))]

IvvColumns ==
    {<<>>} \cup {IvvColumn(n, m) : n \in (200 - LenSlack)..(200 + LenSlack), m \in 1..3}

\* each LAA ticker has no data, or a last price of 1.1875 or 1.0
LaaQuotes ==
    {q \in [LaaTickers -> {<<>>, <<Num(Scale + 3 * (Scale \div 16))>>, <<Num(Scale)>>}] :
        \A t \in LaaTickers \ {"VTV"} : q[t] # <<Num(Scale)>>}

LaaFrame(col, q) == [t \in LaaTickers \cup {"IVV"} |-> IF t = "IVV" THEN col ELSE q[t]]

UnrateVals == {4 * Scale, 4 * Scale + Scale \div 2}

InitLaa ==
    /\ pc = "start"
    /\ total_assets \in {0, 35}
    /\ exchange_rate = Scale + Scale \div 4
    /\ prices \in {LaaFrame(col, q) : col \in IvvColumns, q \in LaaQuotes}
    /\ curr_unrate \in UnrateVals
    /\ ma12_unrate \in UnrateVals
    /\ ivv = <<>>
    /\ curr_p = NaN
    /\ spy_200ma = NaN
    /\ laa_dynamic = NoPick
    /\ laa_res = <<>>
    /\ laa_sum = 0
    /\ SharesIdle /\ ScoreIdle /\ VaaIdle /\ DmIdle /\ AlertIdle /\ HistIdle

\* lines 157-166: ivv, curr_p and the drawdown from the all-time high (ath is
\* used in place; ma50 feeds only the return-signal text and is left out)
Indicators ==
    /\ pc = "start"
    /\ LET s == safe_series(prices, "IVV")
       IN  /\ ivv' = s
           /\ curr_p' = IF Len(s) = 0 THEN NaN ELSE Num(iloc_neg(s, 1))
           /\ mdd' = IF Len(s) = 0 THEN NaN
                     ELSE Num(fmul(fsub(fdiv(iloc_neg(s, 1), cummax_last(s)), Scale),
                                   IntToFloat(100)))
    /\ pc' = "indicators"
    /\ UNCHANGED <<input_vars, curr_unrate, ma12_unrate, spy_200ma, laa_dynamic, laa_res, laa_sum>>
    /\ UNCHANGED <<shares_vars, score_vars, vaa_vars, dm_vars, level, ratio, status, hist_vars>>

\* lines 232-243 and the LAA row of the summary
Laa ==
    /\ pc = "indicators"
    /\ LET ma == spy_200ma_of(ivv)
           dyn == laa_dynamic_of(curr_unrate, ma12_unrate, curr_p, ma)
           laa_tickers == Append(LaaFixed, dyn)
           rows == [i \in 1..Len(laa_tickers) |->
                       laa_row(prices, laa_tickers[i], total_assets, exchange_rate)]
       IN  /\ spy_200ma' = ma
           /\ laa_dynamic' = dyn
           /\ laa_res' = rows
           /\ laa_sum' = laa_sum_of(rows)
           /\ status' = laa_status(dyn)
    /\ pc' = "done"
    /\ UNCHANGED <<input_vars, curr_unrate, ma12_unrate, ivv, curr_p>>
    /\ UNCHANGED <<shares_vars, score_vars, vaa_vars, dm_vars, mdd, level, ratio, hist_vars>>

NextLaa == Indicators \/ Laa

SpecLaa == InitLaa /\ [][NextLaa]_vars

\* C7: the dynamic holding is VGSH (status defensive) iff the unemployment
\* rate is above its 12-month mean and IVV's latest price is below its
\* 200-period moving average, that average being defined whenever the series
\* has at least 200 points; in every other case it is QQQM (status normal).
C7_Ma200 == rolling_mean_last(ivv, 200)

C7_Defensive ==
    /\ curr_unrate > ma12_unrate
    /\ Len(ivv) >= 200
    /\ IsNum(C7_Ma200) /\ ivv[Len(ivv)] < C7_Ma200.v

C7_RegimeSwitch ==
    pc = "done" =>
        /\ laa_dynamic = IF C7_Defensive THEN "VGSH" ELSE "QQQM"
        /\ status = IF C7_Defensive THEN "defensive" ELSE "normal"

\* what the code does: the average needs more than 200 points
C7_CodeRegimeSwitch ==
    pc = "done" =>
        /\ laa_dynamic = IF C7_Defensive /\ Len(ivv) > 200 THEN "VGSH" ELSE "QQQM"
        /\ status = IF C7_Defensive /\ Len(ivv) > 200 THEN "defensive" ELSE "normal"

\* C8: the rule always has exactly 4 holdings, VTV, VGIT, IAUM and the
\* dynamic one, each funded by calc_shares with 25% of the rule budget;
\* laa_sum is the arithmetic sum of the 4 spends (no price: 0) and, for a
\* positive budget and exchange rate, never exceeds the rule budget.
C8_Quarter == fmul(budget_per_strat(total_assets), Scale \div 4)

C8_Funded(i, t) ==
    LET bought == calc_shares(C8_Quarter, last_price(prices, t), exchange_rate)
    IN  /\ laa_res[i].ticker = t
        /\ laa_res[i].shares = bought[1]
        /\ laa_res[i].amount = bought[2]
        /\ isnan(last_price(prices, t)) => laa_res[i].amount = 0

C8_Holdings ==
    /\ Len(laa_res) = 4
    /\ C8_Funded(1, "VTV") /\ C8_Funded(2, "VGIT") /\ C8_Funded(3, "IAUM")
    /\ C8_Funded(4, laa_dynamic)

C8_Composition ==
    pc = "done" =>
        /\ C8_Holdings
        /\ laa_sum = laa_res[1].amount + laa_res[2].amount
                        + laa_res[3].amount + laa_res[4].amount
        /\ (budget_per_strat(total_assets) > 0 /\ exchange_rate > 0) =>
              laa_sum <= budget_per_strat(total_assets)

\* the parts of C8 taken one at a time
C8_FourHoldings == pc = "done" => C8_Holdings

C8_ExactSum ==
    pc = "done" =>
        laa_sum = laa_res[1].amount + laa_res[2].amount
                    + laa_res[3].amount + laa_res[4].amount

C8_WithinBudget ==
    (pc = "done" /\ budget_per_strat(total_assets) > 0 /\ exchange_rate > 0) =>
        laa_sum <= budget_per_strat(total_assets)

----------------------------------------------------------------------------
(* The history log *)

\* browser sessions, each with its own st.session_state
NumSessions == 2
\* records appended in one run of the model
MaxRecords == 3
\* minutes the clock can advance
MaxClock == 2

Sessions == 1..NumSessions

\* DataFrame.to_csv writes a missing value (NaN) and the empty string alike
\* as an empty field; read_csv reads an empty field as NaN
csv_write(cell) == IF cell = "nan" THEN "" ELSE cell
csv_read(field) == IF field = "" THEN "nan" ELSE field

to_csv_row(rec) == [c \in DOMAIN rec |-> IF c = "date" THEN rec[c] ELSE csv_write(rec[c])]
read_csv_row(row) == [c \in DOMAIN row |-> IF c = "date" THEN row[c] ELSE csv_read(row[c])]

\* pd.read_csv(HISTORY_FILE).to_dict('records')
read_csv(file) == [i \in 1..Len(file.rows) |-> read_csv_row(file.rows[i])]

\* load_history: [] without a file or when reading raises
load_history(file, read_ok) ==
    IF file.exists /\ read_ok THEN read_csv(file) ELSE <<>>

\* the file save_history leaves when the write succeeds: the whole list
save_history(history_list) ==
    [exists |-> TRUE, rows |-> [i \in 1..Len(history_list) |-> to_csv_row(history_list[i])]]

\* the log of line 280: timestamp, VAA pick or "", LAA holding, DM pick, MDD or ""
Logs(t) ==
    [date : {t}, VAA : {"", "IVV"}, LAA : {"QQQM"}, DM : {"BND"}, MDD : {"", "-5.00%"}]

InitHist ==
    /\ pc = "start"
    /\ history_file = NoFile
    /\ session_state = [s \in Sessions |-> [loaded |-> FALSE, history |-> <<>>]]
    /\ now = 0
    /\ appended = <<>>
    /\ io_failed = FALSE
    /\ InputIdle /\ SharesIdle /\ ScoreIdle /\ VaaIdle /\ LaaIdle /\ DmIdle /\ AlertIdle

others_hist == <<pc, input_vars, shares_vars, score_vars, vaa_vars, laa_vars, dm_vars,
                 alert_vars, status>>

\* lines 134-135: a session's first run loads the file
SessionStart(s) ==
    /\ ~session_state[s].loaded
    /\ \E read_ok \in BOOLEAN :
          /\ (~read_ok) => history_file.exists
          /\ session_state' = [session_state EXCEPT
                                  ![s] = [loaded |-> TRUE,
                                          history |-> load_history(history_file, read_ok)]]
          /\ io_failed' = (io_failed \/ ~read_ok)
    /\ UNCHANGED <<history_file, now, appended, others_hist>>

\* lines 279-286: the record button appends the log and saves the whole list
Record(s) ==
    /\ session_state[s].loaded
    /\ Len(appended) < MaxRecords
    /\ \E log \in Logs(now), write_ok \in BOOLEAN :
          LET history == Append(session_state[s].history, log)
          IN  /\ session_state' = [session_state EXCEPT ![s].history = history]
              /\ history_file' = IF write_ok THEN save_history(history) ELSE history_file
              /\ appended' = Append(appended, log)
              /\ io_failed' = (io_failed \/ ~write_ok)
    /\ UNCHANGED <<now, others_hist>>

\* a minute passes
Tick ==
    /\ now < MaxClock
    /\ now' = now + 1
    /\ UNCHANGED <<history_file, session_state, appended, io_failed, others_hist>>

NextHist == (\E s \in Sessions : SessionStart(s)) \/ (\E s \in Sessions : Record(s)) \/ Tick

SpecHist == InitHist /\ [][NextHist]_vars

\* C10: after any sequence of record actions and session starts, in any
\* session, the read path returns all previously appended records in
\* insertion order: none lost, duplicated or reordered.  A record is compared
\* as the CSV renders it, and the statement is made only for runs in which
\* every save and every load succeeded, the case that needs no excuse.
C10_AsStored == [i \in 1..Len(appended) |-> read_csv_row(to_csv_row(appended[i]))]

C10_ReadPath == ~io_failed => load_history(history_file, TRUE) = C10_AsStored

\* C10 with failing saves and loads included, as the claim has it
C10_ReadPathAlways == load_history(history_file, TRUE) = C10_AsStored

\* with one session only, and no failure, nothing is lost
C10_SingleSession ==
    (~io_failed /\ \A s \in Sessions : s # 1 => session_state[s].history = <<>>
                                              /\ (session_state[s].loaded => appended = <<>>))
        => load_history(history_file, TRUE) = C10_AsStored

====
